---- MODULE Spec2Model ----
(***************************************************************************)
(* State-machine model of the client-side forensics session of the         *)
(* FakeLineage dashboard: the global session store (store/appStore.ts),    *)
(* the single-image pipeline (AnalysisPage in pages/SocialTracker.tsx) and *)
(* the batch queue (BatchAnalysisPage in pages/SocialTracker.tsx).         *)
(*                                                                         *)
(* JavaScript runs handlers to completion between awaits, so every action  *)
(* below is one synchronous stretch of a handler: from its invocation (or  *)
(* from the settling of the promise it awaits) up to its next await or its *)
(* return.                                                                 *)
(***************************************************************************)
EXTENDS Integers, Sequences, FiniteSets, TLC

VARIABLES
    store,      \* the zustand state object of useAppStore
    fileRef,    \* AnalysisPage: fileRef.current
    run,        \* AnalysisPage: the runAnalysis invocation (position, locals)
    queue,      \* BatchAnalysisPage: the queue state (useState)
    running,    \* BatchAnalysisPage: the running state (useState)
    batch,      \* BatchAnalysisPage: the runBatch invocation (position, closure, locals)
    net,        \* remote calls in flight: [op, by, arg]
    blobUrls,   \* object URLs created by URL.createObjectURL and not revoked
    nextFile,   \* number of File objects handed to the pages so far, plus one
    nextImage,  \* backend: number of image resources created so far, plus one
    verdicts,   \* the verdicts the two pages derive from one deepfake score
    layout,     \* ProvenanceGraphPage: the graphToFlow invocation (position, locals)
    stages,     \* the graph, social and report pages: loading, error, result, load invocation
    auth,       \* the zustand state object of useAuthStore
    settings,   \* the zustand state object of useSettingsStore
    localStorage,   \* window.localStorage: the keys present and their values
    puts,       \* the PUT requests saveToBackend has sent
    lastSave    \* how the last invocation of saveToBackend went on after reading the token

vars == <<store, fileRef, run, queue, running, batch, net, blobUrls, nextFile, nextImage,
          verdicts, layout, stages, auth, settings, localStorage, puts, lastSave>>

\* The variables of the account: authentication and settings.
accountVars == <<auth, settings, localStorage, puts, lastSave>>

\* The variables of the Analysis page, the Batch page and the backend.
pageVars == <<store, fileRef, run, queue, running, batch, net, blobUrls, nextFile, nextImage>>

(***************************************************************************)
(* Bounds of the model.                                                    *)
(***************************************************************************)
MaxFiles == 3       \* File objects the user hands over in one behaviour
MaxImages == 2      \* image resources the backend creates in one behaviour
MaxAdd == 2         \* files in one FileList given to addFiles
MaxQueue == 3       \* length of the batch queue, the batch page alone
MaxSideQueue == 1   \* length of the batch queue, both pages in use
MaxScore == 100     \* largest overall_score a verdict is derived from, in hundredths
MaxNodes == 3       \* nodes of a provenance graph
MaxEdges == 3       \* edges of a provenance graph
MaxItems == 4       \* length of the queue clearDone and removeItem are applied to

(***************************************************************************)
(* Values.                                                                 *)
(***************************************************************************)
Null == [null |-> TRUE]      \* null / undefined of an object-valued field
NoId == 0                    \* null / undefined of an identifier
NoText == "null"             \* null / undefined of a string-valued field
NoScore == 0 - 1             \* undefined score of a queue item

\* Scores are in hundredths: 30 is 0.30. The scores the backend answers with.
DeepfakeScores ==
    { [overall_score |-> 30, is_deepfake |-> FALSE],
      [overall_score |-> 31, is_deepfake |-> FALSE],
      [overall_score |-> 90, is_deepfake |-> TRUE] }

\* What a rejected call carries in err.response.data.detail.
NoDetail == "undefined"
Details == {NoDetail, "", "quota exceeded"}

AnalysisFallback == "Analysis failed. Is the backend running on port 8000?"
BatchFallback == "Failed"

\* detail || fallback: the fallback replaces an absent and an empty detail.
OrElse(detail, fallback) ==
    IF detail = NoDetail \/ detail = "" THEN fallback ELSE detail

(***************************************************************************)
(* The session store.                                                      *)
(***************************************************************************)
InitialStore ==
    [ currentImageId     |-> NoId,
      uploadedImage      |-> Null,
      analysisResult     |-> Null,
      provenanceGraph    |-> Null,
      socialSpread       |-> Null,
      report             |-> Null,
      isUploading        |-> FALSE,
      isAnalyzing        |-> FALSE,
      isBuildingGraph    |-> FALSE,
      isLoadingSocial    |-> FALSE,
      isGeneratingReport |-> FALSE,
      error              |-> NoText,
      uploadQueue        |-> << >> ]

setCurrentImageId(s, id) == [s EXCEPT !.currentImageId = id]
setUploadedImage(s, img) == [s EXCEPT !.uploadedImage = img]
setAnalysisResult(s, result) == [s EXCEPT !.analysisResult = result]
setIsUploading(s, v) == [s EXCEPT !.isUploading = v]
setIsAnalyzing(s, v) == [s EXCEPT !.isAnalyzing = v]
setError(s, e) == [s EXCEPT !.error = e]

resetSession(s) ==
    [s EXCEPT !.currentImageId = NoId,
              !.uploadedImage = Null,
              !.analysisResult = Null,
              !.provenanceGraph = Null,
              !.socialSpread = Null,
              !.report = Null,
              !.error = NoText]

\* The store object defines no setPreviewUrl (and no previewUrl): the name
\* AnalysisPage destructures from it is undefined.
HasSetPreviewUrl == FALSE

(***************************************************************************)
(* The backend's answers.                                                  *)
(***************************************************************************)
UploadResponse(id, file) == [image_id |-> id, filename |-> file]
AnalysisResult(id, deepfake_score) ==
    [image_id |-> id, deepfake_score |-> deepfake_score]


(***************************************************************************)
(* AnalysisPage: the single-image pipeline.                                *)
(***************************************************************************)
\* run.pc: "idle" before the first invocation, "upload" / "analyze" while the
\* invocation is suspended at that await, "settled" once it has returned.
\* run.outcome tells how the last invocation ended.
IdleRun == [pc |-> "idle", file |-> NoId, uploaded |-> Null, outcome |-> "none"]
Settled(outcome) ==
    [pc |-> "settled", file |-> NoId, uploaded |-> Null, outcome |-> outcome]

RunRequest(op, arg) == [op |-> op, by |-> "run", arg |-> arg]

\* handleFile(file): the user hands a new File object to the dropzone.
handleFile ==
    /\ nextFile <= MaxFiles
    /\ fileRef' = nextFile
    /\ blobUrls' = blobUrls \cup {nextFile}
    /\ nextFile' = nextFile + 1
    /\ store' = IF HasSetPreviewUrl
                  THEN setError(setAnalysisResult(store, Null), NoText)
                  ELSE store      \* calling undefined throws after createObjectURL
    /\ UNCHANGED <<verdicts, layout, stages, accountVars, run, queue, running, batch, net, nextImage>>

\* handleClear / handleReset.
handleClear ==
    /\ fileRef' = NoId
    /\ store' = resetSession(store)
    /\ UNCHANGED <<verdicts, layout, stages, accountVars, run, queue, running, batch, net, blobUrls, nextFile, nextImage>>

\* A finally block that forgets the second flag.
ReleaseUploadingOnly(s) == setIsUploading(s, FALSE)

\* The finally block of runAnalysis.
ReleaseBusy(s) == setIsAnalyzing(setIsUploading(s, FALSE), FALSE)

\* The dropzone disables the button that calls onAnalyze while busy.
AnalyzeButtonEnabled == ~(store.isUploading \/ store.isAnalyzing)

\* A runAnalysis that leaves the error of the previous run in place.
runAnalysisKeepsError ==
    /\ AnalyzeButtonEnabled
    /\ run.pc \in {"idle", "settled"}
    /\ IF fileRef = NoId
         THEN /\ run' = Settled("noFile")
              /\ UNCHANGED <<verdicts, layout, stages, accountVars, store, net>>
         ELSE /\ store' = setIsUploading(store, TRUE)
              /\ net' = net \cup {RunRequest("upload", fileRef)}
              /\ run' = [pc |-> "upload", file |-> fileRef, uploaded |-> Null,
                         outcome |-> "none"]
    /\ UNCHANGED <<verdicts, layout, stages, accountVars, fileRef, queue, running, batch, blobUrls, nextFile, nextImage>>

\* runAnalysis up to its first await (or its early return).
runAnalysis ==
    /\ AnalyzeButtonEnabled
    /\ run.pc \in {"idle", "settled"}
    /\ IF fileRef = NoId
         THEN /\ run' = Settled("noFile")
              /\ UNCHANGED <<verdicts, layout, stages, accountVars, store, net>>
         ELSE /\ store' = setError(setIsUploading(store, TRUE), NoText)
              /\ net' = net \cup {RunRequest("upload", fileRef)}
              /\ run' = [pc |-> "upload", file |-> fileRef, uploaded |-> Null,
                         outcome |-> "none"]
    /\ UNCHANGED <<verdicts, layout, stages, accountVars, fileRef, queue, running, batch, blobUrls, nextFile, nextImage>>

\* uploadImage resolves: lines 269-274, up to the await of analyzeImage.
RunUploadResolved ==
    /\ run.pc = "upload"
    /\ nextImage <= MaxImages
    /\ LET uploaded == UploadResponse(nextImage, run.file)
       IN  /\ store' = setIsAnalyzing(
                         setIsUploading(
                           setCurrentImageId(
                             setUploadedImage(store, uploaded),
                             uploaded.image_id),
                           FALSE),
                         TRUE)
           /\ net' = (net \ {RunRequest("upload", run.file)})
                       \cup {RunRequest("analyze", uploaded.image_id)}
           /\ run' = [run EXCEPT !.pc = "analyze", !.uploaded = uploaded]
    /\ nextImage' = nextImage + 1
    /\ UNCHANGED <<verdicts, layout, stages, accountVars, fileRef, queue, running, batch, blobUrls, nextFile>>

\* A pipeline that reports the failed upload and goes on to analyze.
RunUploadRejectedGoesOn(detail) ==
    /\ run.pc = "upload"
    /\ store' = setIsAnalyzing(
                  setIsUploading(setError(store, OrElse(detail, AnalysisFallback)), FALSE),
                  TRUE)
    /\ net' = (net \ {RunRequest("upload", run.file)})
                \cup {RunRequest("analyze", store.currentImageId)}
    /\ run' = [run EXCEPT !.pc = "analyze"]
    /\ UNCHANGED <<verdicts, layout, stages, accountVars, fileRef, queue, running, batch, blobUrls, nextFile, nextImage>>

\* uploadImage rejects: catch, then finally.
RunUploadRejected(detail) ==
    /\ run.pc = "upload"
    /\ store' = ReleaseBusy(setError(store, OrElse(detail, AnalysisFallback)))
    /\ net' = net \ {RunRequest("upload", run.file)}
    /\ run' = Settled("uploadFailed")
    /\ UNCHANGED <<verdicts, layout, stages, accountVars, fileRef, queue, running, batch, blobUrls, nextFile, nextImage>>

\* analyzeImage resolves: line 275, then finally.
RunAnalyzeResolved(deepfake_score) ==
    /\ run.pc = "analyze"
    /\ LET result == AnalysisResult(run.uploaded.image_id, deepfake_score)
       IN  store' = ReleaseBusy(setAnalysisResult(store, result))
    /\ net' = net \ {RunRequest("analyze", run.uploaded.image_id)}
    /\ run' = Settled("ok")
    /\ UNCHANGED <<verdicts, layout, stages, accountVars, fileRef, queue, running, batch, blobUrls, nextFile, nextImage>>

\* A catch block that rolls the upload back when the analysis fails.
RunAnalyzeRejectedRollsBack(detail) ==
    /\ run.pc = "analyze"
    /\ store' = ReleaseBusy(
                  setError(
                    setCurrentImageId(setUploadedImage(store, Null), NoId),
                    OrElse(detail, AnalysisFallback)))
    /\ net' = net \ {RunRequest("analyze", run.uploaded.image_id)}
    /\ run' = Settled("analyzeFailed")
    /\ UNCHANGED <<verdicts, layout, stages, accountVars, fileRef, queue, running, batch, blobUrls, nextFile, nextImage>>

\* analyzeImage rejects: catch, then finally.
RunAnalyzeRejected(detail) ==
    /\ run.pc = "analyze"
    /\ store' = ReleaseBusy(setError(store, OrElse(detail, AnalysisFallback)))
    /\ net' = net \ {RunRequest("analyze", run.uploaded.image_id)}
    /\ run' = Settled("analyzeFailed")
    /\ UNCHANGED <<verdicts, layout, stages, accountVars, fileRef, queue, running, batch, blobUrls, nextFile, nextImage>>

\* A page whose threshold is inclusive.
PageVerdictInclusive(analysisResult) ==
    IF analysisResult = Null THEN NoText
    ELSE LET df == analysisResult.deepfake_score
         IN  IF df.is_deepfake THEN "DEEPFAKE"
             ELSE IF df.overall_score >= 30 THEN "SUSPICIOUS" ELSE "AUTHENTIC"

\* The interim verdict AnalysisPage derives when it renders.
PageVerdict(analysisResult) ==
    IF analysisResult = Null THEN NoText
    ELSE LET df == analysisResult.deepfake_score
         IN  IF df.is_deepfake THEN "DEEPFAKE"
             ELSE IF df.overall_score > 30 THEN "SUSPICIOUS" ELSE "AUTHENTIC"

(***************************************************************************)
(* BatchAnalysisPage: the batch queue.                                     *)
(***************************************************************************)
Statuses == {"queued", "uploading", "analyzing", "done", "error"}

\* A QueueItem as addFiles creates it; the optional fields are undefined.
NewItem(file) ==
    [ file       |-> file,
      status     |-> "queued",
      imageId    |-> NoId,
      verdict    |-> NoText,
      score      |-> NoScore,
      error      |-> NoText,
      previewUrl |-> file ]     \* the object URL created for this File

\* { ...item, ...update }
Merge(item, update) ==
    [f \in DOMAIN item |-> IF f \in DOMAIN update THEN update[f] ELSE item[f]]

\* updateItem(index, update) applied to the current queue; index counts from 0.
updateItem(q, index, update) ==
    [k \in 1..Len(q) |-> IF k - 1 = index THEN Merge(q[k], update) ELSE q[k]]

\* prev.filter(...): the elements of q at the accepted positions, in order.
RECURSIVE FilterFrom(_, _, _)
FilterFrom(q, accepted, k) ==
    IF k > Len(q) THEN << >>
    ELSE (IF k \in accepted THEN <<q[k]>> ELSE << >>) \o FilterFrom(q, accepted, k + 1)
Filter(q, accepted) == FilterFrom(q, accepted, 1)

\* A filter that drops the items in error too.
ClearSettled(q) == Filter(q, {k \in 1..Len(q) : q[k].status \notin {"done", "error"}})

\* clearDone: prev.filter(q => q.status !== 'done')
ClearDone(q) == Filter(q, {k \in 1..Len(q) : q[k].status # "done"})

\* A filter that counts idx from 1.
RemoveItemFromOne(q, i) == Filter(q, {k \in 1..Len(q) : k # i})

\* removeItem(i): prev.filter((_, idx) => idx !== i); idx counts from 0.
RemoveItem(q, i) == Filter(q, {k \in 1..Len(q) : k - 1 # i})

\* A batch whose threshold is inclusive.
BatchVerdictInclusive(deepfake_score) ==
    IF deepfake_score.is_deepfake THEN "DEEPFAKE"
    ELSE IF deepfake_score.overall_score >= 30 THEN "SUSPICIOUS" ELSE "AUTHENTIC"

\* The verdict runBatch derives from an analysis result.
BatchVerdict(deepfake_score) ==
    IF deepfake_score.is_deepfake THEN "DEEPFAKE"
    ELSE IF deepfake_score.overall_score > 30 THEN "SUSPICIOUS" ELSE "AUTHENTIC"

\* The counters the page derives when it renders.
done == Len(Filter(queue, {k \in 1..Len(queue) : queue[k].status = "done"}))
errors == Len(Filter(queue, {k \in 1..Len(queue) : queue[k].status = "error"}))
deepfakes == Len(Filter(queue, {k \in 1..Len(queue) : queue[k].verdict = "DEEPFAKE"}))

\* batch.pc: "idle" before the first invocation, "upload" / "analyze" while
\* runBatch is suspended at that await for index batch.i, "settled" once it has
\* returned. batch.queue is the queue array the invocation closed over, and
\* batch.log tells, for each index of that array, what the invocation did.
NoLog == [result |-> "none", message |-> NoText]
Logged(result, message) == [result |-> result, message |-> message]
IdleBatch ==
    [pc |-> "idle", queue |-> << >>, i |-> 0, uploaded |-> Null, log |-> << >>]

BatchRequest(op, arg) == [op |-> op, by |-> "batch", arg |-> arg]

\* addFiles(files) with a FileList; isImage[k] tells whether the type of the
\* k-th file starts with "image/". Each kept file gets a new object URL.
addFiles(isImage) ==
    LET kept == {k \in 1..Len(isImage) : isImage[k]}
        n == Cardinality(kept)
        newItems == [k \in 1..n |-> NewItem(nextFile + k - 1)]
    IN  /\ nextFile + n - 1 <= MaxFiles
        /\ queue' = queue \o newItems
        /\ blobUrls' = blobUrls \cup {nextFile + k - 1 : k \in 1..n}
        /\ nextFile' = nextFile + n
        /\ UNCHANGED <<verdicts, layout, stages, accountVars, store, fileRef, run, running, batch, net, nextImage>>

\* The index at which the for loop stops skipping: the first index from
\* `from` on whose item, in the closed-over array, is not done.
RECURSIVE NextIndex(_, _)
NextIndex(captured, from) ==
    IF from >= Len(captured) THEN Len(captured)
    ELSE IF captured[from + 1].status = "done" THEN NextIndex(captured, from + 1)
    ELSE from

\* The for loop of runBatch from index `from` up to its next await or its end:
\* q is the current queue, inFlight the calls in flight, log the log so far.
Loop(captured, q, inFlight, from, log) ==
    LET k == NextIndex(captured, from)
        skipped == [n \in 1..Len(log) |->
                      IF n - 1 >= from /\ n - 1 < k
                        THEN Logged("skipped", NoText) ELSE log[n]]
    IN  IF k < Len(captured)
          THEN /\ queue' = updateItem(q, k, [status |-> "uploading"])
               /\ net' = inFlight \cup {BatchRequest("upload", captured[k + 1].file)}
               /\ batch' = [pc |-> "upload", queue |-> captured, i |-> k,
                            uploaded |-> Null,
                            log |-> [skipped EXCEPT ![k + 1] = Logged("pending", NoText)]]
               /\ running' = TRUE
          ELSE /\ queue' = q
               /\ net' = inFlight
               /\ batch' = [pc |-> "settled", queue |-> captured, i |-> k,
                            uploaded |-> Null, log |-> skipped]
               /\ running' = FALSE

\* The Run All button is disabled while running and for an empty queue.
RunAllButtonEnabled == ~(running \/ Len(queue) = 0)

\* runBatch up to its first await (or its end).
runBatch ==
    /\ RunAllButtonEnabled
    /\ batch.pc \in {"idle", "settled"}
    /\ Loop(queue, queue, net, 0, [n \in 1..Len(queue) |-> NoLog])
    /\ UNCHANGED <<verdicts, layout, stages, accountVars, store, fileRef, run, blobUrls, nextFile, nextImage>>

\* uploadImage resolves: lines 431-433, up to the await of analyzeImage.
BatchUploadResolved ==
    /\ batch.pc = "upload"
    /\ nextImage <= MaxImages
    /\ LET uploaded == UploadResponse(nextImage, batch.queue[batch.i + 1].file)
       IN  /\ queue' = updateItem(queue, batch.i,
                         [status |-> "analyzing", imageId |-> uploaded.image_id])
           /\ store' = setCurrentImageId(store, uploaded.image_id)
           /\ net' = (net \ {BatchRequest("upload", batch.queue[batch.i + 1].file)})
                       \cup {BatchRequest("analyze", uploaded.image_id)}
           /\ batch' = [batch EXCEPT !.pc = "analyze", !.uploaded = uploaded]
    /\ nextImage' = nextImage + 1
    /\ UNCHANGED <<verdicts, layout, stages, accountVars, fileRef, run, running, blobUrls, nextFile>>

\* uploadImage rejects: the catch block, then the loop goes on.
BatchUploadRejected(detail) ==
    /\ batch.pc = "upload"
    /\ LET message == OrElse(detail, BatchFallback)
       IN  Loop(batch.queue,
                updateItem(queue, batch.i, [status |-> "error", error |-> message]),
                net \ {BatchRequest("upload", batch.queue[batch.i + 1].file)},
                batch.i + 1,
                [batch.log EXCEPT ![batch.i + 1] = Logged("uploadRejected", message)])
    /\ UNCHANGED <<verdicts, layout, stages, accountVars, store, fileRef, run, blobUrls, nextFile, nextImage>>

\* analyzeImage resolves: lines 434-437, then the loop goes on.
BatchAnalyzeResolved(deepfake_score) ==
    /\ batch.pc = "analyze"
    /\ LET result == AnalysisResult(batch.uploaded.image_id, deepfake_score)
           score == result.deepfake_score.overall_score
           verdict == BatchVerdict(result.deepfake_score)
       IN  Loop(batch.queue,
                updateItem(queue, batch.i,
                           [status |-> "done", verdict |-> verdict, score |-> score]),
                net \ {BatchRequest("analyze", batch.uploaded.image_id)},
                batch.i + 1,
                [batch.log EXCEPT ![batch.i + 1] = Logged("done", NoText)])
    /\ UNCHANGED <<verdicts, layout, stages, accountVars, store, fileRef, run, blobUrls, nextFile, nextImage>>

\* analyzeImage rejects: the catch block, then the loop goes on.
BatchAnalyzeRejected(detail) ==
    /\ batch.pc = "analyze"
    /\ LET message == OrElse(detail, BatchFallback)
       IN  Loop(batch.queue,
                updateItem(queue, batch.i, [status |-> "error", error |-> message]),
                net \ {BatchRequest("analyze", batch.uploaded.image_id)},
                batch.i + 1,
                [batch.log EXCEPT ![batch.i + 1] = Logged("analyzeRejected", message)])
    /\ UNCHANGED <<verdicts, layout, stages, accountVars, store, fileRef, run, blobUrls, nextFile, nextImage>>

\* The Clear completed button.
clearDone ==
    /\ queue' = ClearDone(queue)
    /\ UNCHANGED <<verdicts, layout, stages, accountVars, store, fileRef, run, running, batch, net, blobUrls, nextFile, nextImage>>

\* The X button of the row at index i.
removeItem(i) ==
    /\ queue' = RemoveItem(queue, i)
    /\ UNCHANGED <<verdicts, layout, stages, accountVars, store, fileRef, run, running, batch, net, blobUrls, nextFile, nextImage>>

(***************************************************************************)
(* The verdict the two pages derive from the deepfake score of a result.   *)
(***************************************************************************)
\* The deepfake scores of the results the backend can answer with.
ScoreInputs == [overall_score : 0..MaxScore, is_deepfake : BOOLEAN]

\* verdicts.df is the deepfake score of one analysis result; verdicts.page
\* and verdicts.batch are what AnalysisPage and runBatch derived from it.
NoVerdicts == [df |-> Null, page |-> NoText, batch |-> NoText]

\* AnalysisPage renders with this result in the store.
PageDerivesVerdict ==
    /\ verdicts.df # Null
    /\ verdicts.page = NoText
    /\ verdicts' = [verdicts EXCEPT
                      !.page = PageVerdict(AnalysisResult(1, verdicts.df))]
    /\ UNCHANGED <<stages, accountVars, pageVars, layout>>

\* runBatch receives this result for an item.
BatchDerivesVerdict ==
    /\ verdicts.df # Null
    /\ verdicts.batch = NoText
    /\ verdicts' = [verdicts EXCEPT
                      !.batch = BatchVerdict(AnalysisResult(1, verdicts.df).deepfake_score)]
    /\ UNCHANGED <<stages, accountVars, pageVars, layout>>

(***************************************************************************)
(* ProvenanceGraphPage: graphToFlow, the BFS layout of a provenance graph. *)
(***************************************************************************)
W == 210
H == 165

\* The graphs the page lays out: a root id, a list of nodes with distinct
\* ids and a list of edges between ids (a node of an edge or the root need
\* not be in the list of nodes).
NodeIds == {"a", "b", "c"}
RootIds == {"a"}        \* graphToFlow never compares ids but for equality
Relationships == {"derived_from", "near_duplicate"}
NodeLists ==
    UNION { {ns \in [1..n -> [id : NodeIds]] :
                \A j, k \in 1..n : j # k => ns[j].id # ns[k].id} : n \in 0..MaxNodes }
\* graphToFlow reads the relationship of an edge for the label and the
\* animated flag of that edge alone: it varies on the first edge.
EdgeLists ==
    UNION { {es \in [1..n -> [source : NodeIds, target : NodeIds,
                              relationship : Relationships]] :
                \A k \in 2..n : es[k].relationship = "derived_from"} :
              n \in 0..MaxEdges }
Graphs == [root_node_id : RootIds, nodes : NodeLists, edges : EdgeLists]

\* A Record<K, V>: m[key] = v, key in m, m[key] ?? otherwise.
Put(m, key, v) == [x \in (DOMAIN m) \cup {key} |-> IF x = key THEN v ELSE m[x]]
\* A visited check that never finds the key.
HasNever(m, key) == FALSE
Has(m, key) == key \in DOMAIN m
Get(m, key, otherwise) == IF key \in DOMAIN m THEN m[key] ELSE otherwise

\* graph.edges.forEach(e => { if (!adj[e.source]) adj[e.source] = [];
\*                            adj[e.source].push(e.target); }), from edge k on.
RECURSIVE BuildAdj(_, _, _)
BuildAdj(edges, k, adj) ==
    IF k > Len(edges) THEN adj
    ELSE LET e == edges[k]
             targets == Get(adj, e.source, << >>)
         IN  BuildAdj(edges, k + 1, Put(adj, e.source, Append(targets, e.target)))

\* The for loop over the children of cur, from child k on: a child that is
\* not in levelMap gets the level of cur plus one and is pushed on the queue.
RECURSIVE Discover(_, _, _, _, _)
Discover(levelMap, bfsQueue, children, k, cur) ==
    IF k > Len(children) THEN [levelMap |-> levelMap, queue |-> bfsQueue]
    ELSE IF Has(levelMap, children[k])
           THEN Discover(levelMap, bfsQueue, children, k + 1, cur)
           ELSE Discover(Put(levelMap, children[k], levelMap[cur] + 1),
                         Append(bfsQueue, children[k]), children, k + 1, cur)

\* A count that leaves out the nodes the traversal has not reached.
RECURSIVE CountLevelsReached(_, _, _, _, _)
CountLevelsReached(nodes, levelMap, k, levelCounts, levelIdx) ==
    IF k > Len(nodes) THEN [levelCounts |-> levelCounts, levelIdx |-> levelIdx]
    ELSE IF ~Has(levelMap, nodes[k].id)
           THEN CountLevelsReached(nodes, levelMap, k + 1, levelCounts, levelIdx)
    ELSE LET lv == Get(levelMap, nodes[k].id, 0)
         IN  CountLevelsReached(nodes, levelMap, k + 1,
                                Put(levelCounts, lv, Get(levelCounts, lv, 0) + 1),
                                Put(levelIdx, nodes[k].id, Get(levelCounts, lv, 0)))

\* graph.nodes.forEach(n => { lv = levelMap[n.id] ?? 0;
\*     levelIdx[n.id] = levelCounts[lv] ?? 0; levelCounts[lv] = ... + 1 }),
\* from node k on.
RECURSIVE CountLevels(_, _, _, _, _)
CountLevels(nodes, levelMap, k, levelCounts, levelIdx) ==
    IF k > Len(nodes) THEN [levelCounts |-> levelCounts, levelIdx |-> levelIdx]
    ELSE LET lv == Get(levelMap, nodes[k].id, 0)
         IN  CountLevels(nodes, levelMap, k + 1,
                         Put(levelCounts, lv, Get(levelCounts, lv, 0) + 1),
                         Put(levelIdx, nodes[k].id, Get(levelCounts, lv, 0)))

\* A grid whose columns are as far apart as its rows.
PositionSquareGrid(n, levelMap, levelCounts, levelIdx) ==
    LET lv == Get(levelMap, n.id, 0)
        cnt == Get(levelCounts, lv, 1)
        idx == Get(levelIdx, n.id, 0)
    IN  [x |-> ((2 * idx - (cnt - 1)) * H) \div 2, y |-> lv * H]

\* A row that starts at its centre: idx - cnt / 2.
PositionOffCentre(n, levelMap, levelCounts, levelIdx) ==
    LET lv == Get(levelMap, n.id, 0)
        cnt == Get(levelCounts, lv, 1)
        idx == Get(levelIdx, n.id, 0)
    IN  [x |-> ((2 * idx - cnt) * W) \div 2, y |-> lv * H]

\* position of node n. (idx - (cnt - 1) / 2) * W is computed in halves: the
\* doubles involved are exact, and W is even.
Position(n, levelMap, levelCounts, levelIdx) ==
    LET lv == Get(levelMap, n.id, 0)
        cnt == Get(levelCounts, lv, 1)
        idx == Get(levelIdx, n.id, 0)
    IN  [x |-> ((2 * idx - (cnt - 1)) * W) \div 2, y |-> lv * H]

\* e.relationship.replace(/_/g, ' ')
Label(relationship) ==
    CASE relationship = "derived_from" -> "derived from"
      [] relationship = "near_duplicate" -> "near duplicate"
      [] OTHER -> relationship

\* The Node[] and the Edge[] of the result.
FlowNodes(graph, levelMap) ==
    LET c == CountLevels(graph.nodes, levelMap, 1, << >>, << >>)
    IN  [k \in 1..Len(graph.nodes) |->
            [id |-> graph.nodes[k].id,
             position |-> Position(graph.nodes[k], levelMap, c.levelCounts, c.levelIdx)]]
FlowEdges(graph) ==
    [k \in 1..Len(graph.edges) |->
        [id |-> <<"e", k - 1>>,
         source |-> graph.edges[k].source,
         target |-> graph.edges[k].target,
         label |-> Label(graph.edges[k].relationship),
         animated |-> graph.edges[k].relationship = "derived_from"]]

\* layout.pc: "idle" before graphToFlow is called with layout.graph, "bfs"
\* while it is in its while loop, "returned" once it has returned
\* layout.nodes and layout.edges. layout.rendered is what the call of the
\* previous render returned, and layout.shifts counts the iterations of the
\* while loop.
IdleLayout ==
    [pc |-> "idle", graph |-> Null, levelMap |-> << >>, queue |-> << >>,
     adj |-> << >>, shifts |-> 0, nodes |-> << >>, edges |-> << >>,
     rendered |-> Null]

\* The edges of a graph, each followed by its reverse.
RECURSIVE BothWays(_, _)
BothWays(edges, k) ==
    IF k > Len(edges) THEN << >>
    ELSE <<edges[k], [edges[k] EXCEPT !.source = edges[k].target,
                                      !.target = edges[k].source]>>
         \o BothWays(edges, k + 1)

\* A traversal that follows the edges in both directions.
graphToFlowUndirected ==
    /\ layout.graph # Null
    /\ \/ layout.pc = "idle"
       \/ layout.pc = "returned" /\ layout.rendered = Null
    /\ layout' = [layout EXCEPT
                    !.pc = "bfs",
                    !.levelMap = Put(<< >>, layout.graph.root_node_id, 0),
                    !.queue = <<layout.graph.root_node_id>>,
                    !.adj = BuildAdj(BothWays(layout.graph.edges, 1), 1, << >>),
                    !.shifts = 0,
                    !.nodes = << >>,
                    !.edges = << >>,
                    !.rendered = IF layout.pc = "returned"
                                   THEN [nodes |-> layout.nodes, edges |-> layout.edges]
                                   ELSE Null]
    /\ UNCHANGED <<stages, accountVars, pageVars, verdicts>>

\* graphToFlow(graph) up to its while loop: the page renders, for the first
\* time or again with the same displayGraph.
graphToFlow ==
    /\ layout.graph # Null
    /\ \/ layout.pc = "idle"
       \/ layout.pc = "returned" /\ layout.rendered = Null
    /\ layout' = [layout EXCEPT
                    !.pc = "bfs",
                    !.levelMap = Put(<< >>, layout.graph.root_node_id, 0),
                    !.queue = <<layout.graph.root_node_id>>,
                    !.adj = BuildAdj(layout.graph.edges, 1, << >>),
                    !.shifts = 0,
                    !.nodes = << >>,
                    !.edges = << >>,
                    !.rendered = IF layout.pc = "returned"
                                   THEN [nodes |-> layout.nodes, edges |-> layout.edges]
                                   ELSE Null]
    /\ UNCHANGED <<stages, accountVars, pageVars, verdicts>>

\* One iteration of the while loop: cur = queue.shift(), then its children.
Visit ==
    /\ layout.pc = "bfs"
    /\ layout.queue # << >>
    /\ LET cur == Head(layout.queue)
           d == Discover(layout.levelMap, Tail(layout.queue),
                         Get(layout.adj, cur, << >>), 1, cur)
       IN  layout' = [layout EXCEPT !.levelMap = d.levelMap, !.queue = d.queue,
                                    !.shifts = @ + 1]
    /\ UNCHANGED <<stages, accountVars, pageVars, verdicts>>

\* A result whose edge ids go on counting from the previous render.
PlaceCountsOn ==
    /\ layout.pc = "bfs"
    /\ layout.queue = << >>
    /\ LET from == IF layout.rendered = Null THEN 0 ELSE Len(layout.rendered.edges)
           flowEdges == FlowEdges(layout.graph)
       IN  layout' = [layout EXCEPT
                        !.pc = "returned",
                        !.nodes = FlowNodes(layout.graph, layout.levelMap),
                        !.edges = [k \in 1..Len(flowEdges) |->
                                     [flowEdges[k] EXCEPT !.id = <<"e", from + k - 1>>]]]
    /\ UNCHANGED <<stages, accountVars, pageVars, verdicts>>

\* The while loop has ended: lines 34-62, the result.
Place ==
    /\ layout.pc = "bfs"
    /\ layout.queue = << >>
    /\ layout' = [layout EXCEPT !.pc = "returned",
                                !.nodes = FlowNodes(layout.graph, layout.levelMap),
                                !.edges = FlowEdges(layout.graph)]
    /\ UNCHANGED <<stages, accountVars, pageVars, verdicts>>

(***************************************************************************)
(* The dependent stages: loadGraph of ProvenanceGraphPage, load of         *)
(* SocialTrackerPage and load of ForensicsReportPage.                      *)
(***************************************************************************)
Stages == {"graph", "social", "report"}

\* The message each page sets when there is no currentImageId.
ValidationMessage(stage) ==
    CASE stage = "graph" -> "Upload and analyze an image first."
      [] stage = "social" -> "Analyze an image first on the Analysis page."
      [] OTHER -> "Analyze an image and run provenance + social analysis first."

\* The message each page sets when its call rejects without a detail.
StageFallback(stage) ==
    CASE stage = "graph" -> "Failed to build provenance graph"
      [] stage = "social" -> "Failed to load social spread data"
      [] OTHER -> "Report generation failed. Run all analyses first."

\* What the backend answers for the image imageId.
StageResult(stage, imageId) == [image_id |-> imageId, stage |-> stage]

setProvenanceGraph(s, graph) == [s EXCEPT !.provenanceGraph = graph]
setSocialSpread(s, spread) == [s EXCEPT !.socialSpread = spread]
setReport(s, report) == [s EXCEPT !.report = report]

\* The store setter each page calls with its result.
setStageResult(s, stage, result) ==
    CASE stage = "graph" -> setProvenanceGraph(s, result)
      [] stage = "social" -> setSocialSpread(s, result)
      [] OTHER -> setReport(s, result)

\* The state of a page (loading, error, its own copy of the result) and its
\* load invocation: pc is "loading" while it awaits the call for imageId.
IdleStage ==
    [pc |-> "idle", imageId |-> NoId, loading |-> FALSE, error |-> NoText,
     result |-> Null]

StageRequest(stage, imageId) == [op |-> stage, by |-> "stage", arg |-> imageId]

\* load / loadGraph up to its await (or its early return); the button that
\* calls it is disabled while loading.
load(stage) ==
    /\ ~stages[stage].loading
    /\ IF store.currentImageId = NoId
         THEN /\ stages' = [stages EXCEPT ![stage].error = ValidationMessage(stage)]
              /\ net' = net
         ELSE /\ stages' = [stages EXCEPT ![stage].loading = TRUE,
                                          ![stage].error = NoText,
                                          ![stage].pc = "loading",
                                          ![stage].imageId = store.currentImageId]
              /\ net' = net \cup {StageRequest(stage, store.currentImageId)}
    /\ UNCHANGED <<store, fileRef, run, queue, running, batch, blobUrls, nextFile,
                   nextImage, verdicts, layout, accountVars>>

\* The call resolves: the result goes to the page and to the store; finally.
LoadResolved(stage) ==
    /\ stages[stage].pc = "loading"
    /\ LET result == StageResult(stage, stages[stage].imageId)
       IN  /\ stages' = [stages EXCEPT ![stage].result = result,
                                       ![stage].loading = FALSE,
                                       ![stage].pc = "idle"]
           /\ store' = setStageResult(store, stage, result)
    /\ net' = net \ {StageRequest(stage, stages[stage].imageId)}
    /\ UNCHANGED <<fileRef, run, queue, running, batch, blobUrls, nextFile,
                   nextImage, verdicts, layout, accountVars>>

\* A catch block that resets the session when the call rejects.
LoadRejectedResets(stage, detail) ==
    /\ stages[stage].pc = "loading"
    /\ stages' = [stages EXCEPT ![stage].error = OrElse(detail, StageFallback(stage)),
                                ![stage].loading = FALSE,
                                ![stage].pc = "idle"]
    /\ store' = resetSession(store)
    /\ net' = net \ {StageRequest(stage, stages[stage].imageId)}
    /\ UNCHANGED <<fileRef, run, queue, running, batch, blobUrls, nextFile,
                   nextImage, verdicts, layout, accountVars>>

\* The call rejects: catch, then finally.
LoadRejected(stage, detail) ==
    /\ stages[stage].pc = "loading"
    /\ stages' = [stages EXCEPT ![stage].error = OrElse(detail, StageFallback(stage)),
                                ![stage].loading = FALSE,
                                ![stage].pc = "idle"]
    /\ net' = net \ {StageRequest(stage, stages[stage].imageId)}
    /\ UNCHANGED <<store, fileRef, run, queue, running, batch, blobUrls, nextFile,
                   nextImage, verdicts, layout, accountVars>>

(***************************************************************************)
(* The account: useAuthStore, useSettingsStore and saveToBackend.          *)
(***************************************************************************)
Tokens == {"jwt-1", "jwt-2"}
Users == {[user_id |-> 1, username |-> "ada"], [user_id |-> 2, username |-> "bob"]}
NoToken == "null"

InitialAuth == [token |-> NoToken, user |-> Null, isAuthenticated |-> FALSE]

InitialSettings ==
    [ apiUrl            |-> "http://localhost:8000",
      requestTimeout    |-> 60,
      deepfakeThreshold |-> 50,
      elaSensitivity    |-> 10,
      hashThreshold     |-> 10,
      lsbThreshold      |-> 75,
      runEla            |-> TRUE,
      runLsb            |-> TRUE,
      buildGraph        |-> FALSE,
      simulateSocial    |-> FALSE,
      doubleCompression |-> TRUE ]

\* The values the settings page gives to setSetting for a key.
SettingValues ==
    [ deepfakeThreshold |-> {50, 60, 70}, buildGraph |-> BOOLEAN, runEla |-> BOOLEAN ]

\* localStorage.setItem and getItem (null for a key that is not there).
setItem(storage, key, value) ==
    [k \in (DOMAIN storage) \cup {key} |-> IF k = key THEN value ELSE storage[k]]
getItem(storage, key) == IF key \in DOMAIN storage THEN storage[key] ELSE Null

\* What the persist middleware writes under the name of a store.
Persisted(state) == [state |-> state, version |-> 0]

\* The key saveToBackend reads its token from, and the names the two stores
\* persist under.
SaveTokenKey == "auth_token"
AuthStoreName == "fakelineage-auth"
SettingsStoreName == "fakelineage-settings"

\* setAuth(token, user): the login and register pages, after the backend
\* has answered with an access token.
setAuth(token, user) ==
    /\ auth' = [token |-> token, user |-> user, isAuthenticated |-> TRUE]
    /\ localStorage' = setItem(localStorage, AuthStoreName, Persisted(auth'))
    /\ UNCHANGED <<pageVars, verdicts, layout, stages, settings, puts, lastSave>>

\* logout(): the sidebar.
logout ==
    /\ auth' = [token |-> NoToken, user |-> Null, isAuthenticated |-> FALSE]
    /\ localStorage' = setItem(localStorage, AuthStoreName, Persisted(auth'))
    /\ UNCHANGED <<pageVars, verdicts, layout, stages, settings, puts, lastSave>>

\* setSetting(key, value)
setSetting(key, value) ==
    /\ settings' = [settings EXCEPT ![key] = value]
    /\ localStorage' = setItem(localStorage, SettingsStoreName, Persisted(settings'))
    /\ UNCHANGED <<pageVars, verdicts, layout, stages, auth, puts, lastSave>>

\* The request axios.put sends: url, body and Authorization header.
PutPreferences(state, token) ==
    [ url |-> <<state.apiUrl, "/api/auth/preferences">>,
      preferences |-> state,
      Authorization |-> <<"Bearer", token>> ]

\* saveToBackend(): it returns when localStorage holds no token under the
\* key it reads; else it sends the preferences. Whatever the backend answers
\* changes no state (a failure is logged to the console).
saveToBackend ==
    /\ LET token == getItem(localStorage, SaveTokenKey)
       IN  IF token = Null
             THEN /\ lastSave' = "skipped"
                  /\ puts' = puts
             ELSE /\ lastSave' = "sent"
                  /\ puts' = puts \cup {PutPreferences(settings, token)}
    /\ UNCHANGED <<pageVars, verdicts, layout, stages, auth, settings, localStorage>>

\* The pages right after they are mounted on a new store.
InitPages ==
    /\ store = InitialStore
    /\ fileRef = NoId
    /\ run = IdleRun
    /\ queue = << >>
    /\ running = FALSE
    /\ batch = IdleBatch
    /\ net = {}
    /\ blobUrls = {}
    /\ nextFile = 1
    /\ nextImage = 1

\* The other pages and the account right after the application has loaded
\* in a browser that holds nothing of it.
InitRest ==
    /\ stages = [s \in Stages |-> IdleStage]
    /\ auth = InitialAuth
    /\ settings = InitialSettings
    /\ localStorage = << >>
    /\ puts = {}
    /\ lastSave = "none"

Init ==
    /\ InitPages
    /\ verdicts = NoVerdicts
    /\ layout = IdleLayout
    /\ InitRest


\* The FileLists addFiles is given: one to MaxAdd files, image-typed or not.
FileLists == UNION {[1..n -> BOOLEAN] : n \in 1..MaxAdd}

\* What the user and the backend can do on the Analysis page.
AnalysisPage ==
    \/ handleFile
    \/ handleClear
    \/ runAnalysis
    \/ RunUploadResolved
    \/ \E detail \in Details : RunUploadRejected(detail)
    \/ \E d \in DeepfakeScores : RunAnalyzeResolved(d)
    \/ \E detail \in Details : RunAnalyzeRejected(detail)

\* What the user and the backend can do on the Batch page, the user keeping
\* the queue within `limit` items.
BatchPage(limit) ==
    \/ \E isImage \in FileLists :
          /\ Len(queue) + Len(isImage) <= limit
          /\ addFiles(isImage)
    \/ runBatch
    \/ BatchUploadResolved
    \/ \E detail \in Details : BatchUploadRejected(detail)
    \/ \E d \in DeepfakeScores : BatchAnalyzeResolved(d)
    \/ \E detail \in Details : BatchAnalyzeRejected(detail)
    \/ clearDone
    \/ \E i \in 0..(Len(queue) - 1) : removeItem(i)

\* The whole client: both pages in use, the user keeping the batch queue
\* short. The batch page writes currentImageId into the store the analysis
\* page uses.
Next == AnalysisPage \/ BatchPage(MaxSideQueue)
Spec == Init /\ [][Next]_vars

\* The analysis page alone.
NextSession == AnalysisPage
SpecSession == Init /\ [][NextSession]_vars

\* The batch page alone.
NextBatch == BatchPage(MaxQueue)
SpecBatch == Init /\ [][NextBatch]_vars

\* The verdict derivation alone, for every deepfake score.
InitClassify ==
    /\ InitPages
    /\ verdicts \in {[NoVerdicts EXCEPT !.df = d] : d \in ScoreInputs}
    /\ layout = IdleLayout
    /\ InitRest
NextClassify == PageDerivesVerdict \/ BatchDerivesVerdict
SpecClassify == InitClassify /\ [][NextClassify]_vars

\* The layout alone, for every graph.
InitLayout ==
    /\ InitPages
    /\ verdicts = NoVerdicts
    /\ layout \in {[IdleLayout EXCEPT !.graph = g] : g \in Graphs}
    /\ InitRest
NextLayout == graphToFlow \/ Visit \/ Place
SpecLayout == InitLayout /\ [][NextLayout]_vars

\* clearDone and removeItem alone, on every queue of up to MaxItems items.
\* An item in a status, as runBatch leaves it there, and the queues of such
\* items, the item at index k - 1 made for the k-th File.
ItemIn(status, file) ==
    CASE status = "queued" -> NewItem(file)
      [] status = "uploading" -> Merge(NewItem(file), [status |-> "uploading"])
      [] status = "analyzing" ->
            Merge(NewItem(file), [status |-> "analyzing", imageId |-> file])
      [] status = "done" ->
            Merge(NewItem(file),
                  [status |-> "done", imageId |-> file,
                   verdict |-> BatchVerdict([overall_score |-> 31, is_deepfake |-> FALSE]),
                   score |-> 31])
      [] OTHER ->
            Merge(NewItem(file),
                  [status |-> "error", error |-> OrElse(NoDetail, BatchFallback)])
Queues ==
    UNION { {[k \in 1..n |-> ItemIn(st[k], k)] : st \in [1..n -> Statuses]} :
              n \in 0..MaxItems }

InitQueue ==
    /\ queue \in Queues
    /\ blobUrls = {queue[k].previewUrl : k \in 1..Len(queue)}
    /\ nextFile = Len(queue) + 1
    /\ nextImage = Len(queue) + 1
    /\ store = InitialStore
    /\ fileRef = NoId
    /\ run = IdleRun
    /\ running = FALSE
    /\ batch = IdleBatch
    /\ net = {}
    /\ verdicts = NoVerdicts
    /\ layout = IdleLayout
    /\ InitRest

NextClearDone == clearDone
SpecClearDone == InitQueue /\ [][NextClearDone]_vars

\* removeItem with every index, one before and one after the queue included.
NextRemoveItem == \E i \in (0 - 1)..Len(queue) : removeItem(i)
SpecRemoveItem == InitQueue /\ [][NextRemoveItem]_vars

\* The dependent stages alone, on every session the analysis page leaves
\* after at most one run (of the first File, answered with the first image
\* id): none, an analysed image, an uploaded image whose analysis failed.
Uploaded == setCurrentImageId(setUploadedImage(InitialStore, UploadResponse(1, 1)), 1)
Sessions ==
    {InitialStore}
      \cup {setAnalysisResult(Uploaded, AnalysisResult(1, d)) : d \in DeepfakeScores}
      \cup {setError(Uploaded, OrElse(detail, AnalysisFallback)) : detail \in Details}

InitStages ==
    /\ store \in Sessions
    /\ fileRef = IF store = InitialStore THEN NoId ELSE 1
    /\ run = IF store = InitialStore THEN IdleRun
             ELSE IF store.analysisResult = Null THEN Settled("analyzeFailed")
             ELSE Settled("ok")
    /\ blobUrls = IF store = InitialStore THEN {} ELSE {1}
    /\ nextFile = IF store = InitialStore THEN 1 ELSE 2
    /\ nextImage = IF store = InitialStore THEN 1 ELSE 2
    /\ queue = << >>
    /\ running = FALSE
    /\ batch = IdleBatch
    /\ net = {}
    /\ verdicts = NoVerdicts
    /\ layout = IdleLayout
    /\ InitRest

\* What the user and the backend can do on the three pages; the user can
\* clear the session on the analysis page in the meantime.
NextStages ==
    \/ \E stage \in Stages : load(stage)
    \/ \E stage \in Stages : LoadResolved(stage)
    \/ \E stage \in Stages : \E detail \in Details : LoadRejected(stage, detail)
    \/ handleClear
SpecStages == InitStages /\ [][NextStages]_vars

\* The account alone: login, logout, the settings page and its save button.
NextSettings ==
    \/ \E token \in Tokens : \E user \in Users : setAuth(token, user)
    \/ logout
    \/ \E key \in DOMAIN SettingValues :
          \E value \in SettingValues[key] : setSetting(key, value)
    \/ saveToBackend
SpecSettings == Init /\ [][NextSettings]_vars

(***************************************************************************)
(* Properties.                                                             *)
(***************************************************************************)
\* The positions of the queue q that hold the item created for File `file`.
Holding(q, file) == {k \in 1..Len(q) : q[k].file = file}

RunRequests(op) == {r \in net : r.by = "run" /\ r.op = op}
BatchRequests == {r \in net : r.by = "batch"}

\* C1: once runBatch has returned, every item whose upload or analyze call
\* rejected during it is in status error and carries the message captured
\* for it, and every item both of whose calls succeeded is in status done
\* (items that were removed in the meantime are not in the queue any more).
C1_BatchFailureIsolation ==
    batch.pc = "settled" =>
        \A n \in 1..Len(batch.queue) :
            \A k \in Holding(queue, batch.queue[n].file) :
                /\ batch.log[n].result \in {"uploadRejected", "analyzeRejected"}
                     => /\ queue[k].status = "error"
                        /\ queue[k].error = batch.log[n].message
                /\ batch.log[n].result = "done" => queue[k].status = "done"

\* C2: in no step does the status of an item that stays in the queue move to
\* an earlier state of queued -> uploading -> analyzing -> (done | error),
\* except error -> uploading; an item in status done stays in status done.
StatusRank(status) ==
    CASE status = "queued" -> 0
      [] status = "uploading" -> 1
      [] status = "analyzing" -> 2
      [] OTHER -> 3

C2_StatusMonotonic ==
    [][\A k \in 1..Len(queue) : \A j \in Holding(queue', queue[k].file) :
          /\ \/ StatusRank(queue'[j].status) >= StatusRank(queue[k].status)
             \/ queue[k].status = "error" /\ queue'[j].status = "uploading"
          /\ queue[k].status = "done" => queue'[j].status = "done"]_vars

\* C3: a response of runAnalysis that arrives after the session was reset or
\* another image was selected is not applied: the step that receives it
\* leaves currentImageId, uploadedImage, analysisResult and error as they are.
RunIsStale ==
    /\ run.pc \in {"upload", "analyze"}
    /\ \/ fileRef # run.file
       \/ run.pc = "analyze" /\ store.currentImageId # run.uploaded.image_id

C3_StaleResponseDiscarded ==
    [][RunIsStale /\ run'.pc # run.pc
          => /\ store'.currentImageId = store.currentImageId
             /\ store'.uploadedImage = store.uploadedImage
             /\ store'.analysisResult = store.analysisResult
             /\ store'.error = store.error]_vars

\* C4: resetSession leaves the store equal to the store right after creation.
C4_ResetYieldsInitial == [][handleClear => store' = InitialStore]_vars

\* C5: runBatch issues no call for an item that was done when it was invoked
\* and leaves every field of such an item as it was; once it has returned, a
\* call was issued for every item that was queued or in error when it was
\* invoked.
C5_IdempotentRerun ==
    /\ \A n \in 1..Len(batch.queue) :
          batch.queue[n].status = "done" =>
              /\ batch.log[n].result \in {"none", "skipped"}
              /\ \A k \in Holding(queue, batch.queue[n].file) :
                    queue[k] = batch.queue[n]
    /\ batch.pc = "settled" =>
          \A n \in 1..Len(batch.queue) :
              batch.queue[n].status \in {"queued", "error"} =>
                  batch.log[n].result \in {"uploadRejected", "analyzeRejected", "done"}

\* C6: an analyze call of runAnalysis is in flight only after the upload call
\* of the same invocation has resolved, and its argument is the image_id of
\* the response that upload gave for the file of this invocation; after an
\* invocation whose upload rejected, no analyze call of it is in flight.
C6_StagesSequential ==
    /\ \A r \in RunRequests("analyze") :
          /\ run.pc = "analyze"
          /\ RunRequests("upload") = {}
          /\ run.uploaded # Null
          /\ run.uploaded.filename = run.file
          /\ r.arg = run.uploaded.image_id
    /\ run.outcome = "uploadFailed" => RunRequests("analyze") = {}

C6_Witness ==
    /\ RunRequests("analyze") # {}
    /\ run.uploaded.image_id = store.currentImageId

\* C7: the step in which a stage of runAnalysis fails sets error and issues
\* no further call. Neither the start of the invocation nor the failure of
\* its upload changes uploadedImage, currentImageId or analysisResult, and
\* the failure of its analysis changes neither uploadedImage nor
\* currentImageId.
C7_PartialFailurePreserves ==
    [][/\ run'.pc = "upload" /\ run.pc # "upload"
            => /\ store'.uploadedImage = store.uploadedImage
               /\ store'.currentImageId = store.currentImageId
               /\ store'.analysisResult = store.analysisResult
       /\ run.pc = "upload" /\ run'.outcome = "uploadFailed"
            => /\ store'.error # NoText
               /\ store'.uploadedImage = store.uploadedImage
               /\ store'.currentImageId = store.currentImageId
               /\ store'.analysisResult = store.analysisResult
               /\ {r \in net' : r.by = "run"} = {}
       /\ run.pc = "analyze" /\ run'.outcome = "analyzeFailed"
            => /\ store'.error # NoText
               /\ store'.uploadedImage = store.uploadedImage
               /\ store'.currentImageId = store.currentImageId
               /\ {r \in net' : r.by = "run"} = {}]_vars

C7_Witness ==
    /\ run.outcome = "analyzeFailed"
    /\ store.error # NoText
    /\ store.uploadedImage # Null
    /\ store.currentImageId = store.uploadedImage.image_id

\* C8: isUploading is true exactly while the upload call of runAnalysis is in
\* flight and isAnalyzing exactly while its analyze call is; once the
\* invocation has returned both are false, and they are never both true.
C8_BusyFlagsReleased ==
    /\ store.isUploading <=> RunRequests("upload") # {}
    /\ store.isAnalyzing <=> RunRequests("analyze") # {}
    /\ run.pc \in {"idle", "settled"} => ~store.isUploading /\ ~store.isAnalyzing
    /\ ~(store.isUploading /\ store.isAnalyzing)

C8_Witness ==
    /\ run.outcome = "analyzeFailed"
    /\ ~store.isUploading
    /\ ~store.isAnalyzing

\* C9: the object URL of an item that leaves the queue is revoked in that
\* step, and after a reset of the session the only object URLs left are those
\* of the items of the queue.
HandlesOf(q) == {q[k].previewUrl : k \in 1..Len(q)}

C9_PreviewHandlesReleased ==
    [][/\ \A k \in 1..Len(queue) :
             Holding(queue', queue[k].file) = {} => queue[k].previewUrl \notin blobUrls'
       /\ handleClear => blobUrls' \subseteq HandlesOf(queue')]_vars

\* C10: at most one call of runBatch is in flight, and at most one item of
\* the queue is in status uploading or analyzing.
C10_BatchSerialized ==
    /\ Cardinality(BatchRequests) <= 1
    /\ Cardinality({k \in 1..Len(queue) :
                      queue[k].status \in {"uploading", "analyzing"}}) <= 1

\* C11: runAnalysis invoked with no file issues no call and fails with a
\* validation error: the invocation ends as a failure that the session shows
\* in error.
C11_NoFileValidationError ==
    [][runAnalysis /\ fileRef = NoId
          => /\ net' = net
             /\ run'.outcome = "noFile"
             /\ store'.error # NoText]_vars

\* C12: a derived verdict is DEEPFAKE whenever is_deepfake is true, whatever
\* the score; otherwise it is SUSPICIOUS when the score is above 0.3 and
\* AUTHENTIC when it is at most 0.3, 0.3 itself included.
Derived == {verdicts.page, verdicts.batch} \ {NoText}

C12_ClassifyRule ==
    \A v \in Derived :
        /\ verdicts.df.is_deepfake => v = "DEEPFAKE"
        /\ ~verdicts.df.is_deepfake /\ verdicts.df.overall_score > 30
             => v = "SUSPICIOUS"
        /\ ~verdicts.df.is_deepfake /\ verdicts.df.overall_score <= 30
             => v = "AUTHENTIC"
        /\ verdicts.df = [overall_score |-> 90, is_deepfake |-> TRUE] => v = "DEEPFAKE"
        /\ verdicts.df = [overall_score |-> 50, is_deepfake |-> FALSE] => v = "SUSPICIOUS"
        /\ verdicts.df = [overall_score |-> 30, is_deepfake |-> FALSE] => v = "AUTHENTIC"
        /\ verdicts.df = [overall_score |-> 0, is_deepfake |-> FALSE] => v = "AUTHENTIC"

C12_Witness ==
    /\ verdicts.df = [overall_score |-> 30, is_deepfake |-> FALSE]
    /\ verdicts.page = "AUTHENTIC"
    /\ verdicts.batch = "AUTHENTIC"

\* C13: the verdict the analysis page derives from a deepfake score equals
\* the verdict runBatch derives from it, and a derived verdict is one of
\* AUTHENTIC, SUSPICIOUS and DEEPFAKE, never MANIPULATED.
C13_SameVerdictEverywhere ==
    /\ Derived \subseteq {"AUTHENTIC", "SUSPICIOUS", "DEEPFAKE"}
    /\ verdicts.page # NoText /\ verdicts.batch # NoText
         => verdicts.page = verdicts.batch

C13_Witness ==
    /\ verdicts.df = [overall_score |-> 31, is_deepfake |-> FALSE]
    /\ verdicts.page = "SUSPICIOUS"
    /\ verdicts.batch = "SUSPICIOUS"

\* The ids within d forward edges of the root of graph g, and the length of
\* the shortest path of forward edges from the root to an id.
RECURSIVE Within(_, _)
Within(g, d) ==
    IF d = 0 THEN {g.root_node_id}
    ELSE LET near == Within(g, d - 1)
         IN  near \cup {g.edges[k].target :
                          k \in {j \in 1..Len(g.edges) : g.edges[j].source \in near}}
Reachable(g) == Within(g, Cardinality(NodeIds))
Distance(g, id) ==
    CHOOSE d \in 0..Cardinality(NodeIds) :
        /\ id \in Within(g, d)
        /\ \A nearer \in 0..(d - 1) : id \notin Within(g, nearer)

\* C14: in the result, every node that is reachable from the root by forward
\* edges is on the row of its shortest forward distance d from the root
\* (y = d * H); the root is on row 0 wherever it stands in the list of nodes
\* and whatever edges point back to it.
C14_LevelIsShortestDistance ==
    layout.pc = "returned" =>
        \A k \in 1..Len(layout.nodes) :
            LET n == layout.nodes[k]
            IN  /\ n.id \in Reachable(layout.graph)
                     => n.position.y = Distance(layout.graph, n.id) * H
                /\ n.id = layout.graph.root_node_id => n.position.y = 0

\* A node two edges from the root although a longer path leads to it too, the
\* root not first in the list and the target of an edge.
C14_Witness ==
    /\ layout.pc = "returned"
    /\ Len(layout.nodes) = 3
    /\ layout.nodes[1].id # layout.graph.root_node_id
    /\ \E k \in 1..Len(layout.nodes) : layout.nodes[k].position.y = 2 * H
    /\ \E k \in 1..Len(layout.graph.edges) :
          /\ layout.graph.edges[k].target = layout.graph.root_node_id
          /\ layout.graph.edges[k].source # layout.graph.root_node_id

\* The positions of the result that are on row y, and the sum of the x of a
\* set of positions of the result.
Row(y) == {k \in 1..Len(layout.nodes) : layout.nodes[k].position.y = y}
RECURSIVE SumX(_)
SumX(row) ==
    IF row = {} THEN 0
    ELSE LET k == CHOOSE j \in row : TRUE
         IN  layout.nodes[k].position.x + SumX(row \ {k})

\* C15: on every row of the result the x of the nodes sum to 0 and mirror
\* each other around 0; a row with an odd number of nodes has one at x = 0.
C15_RowsCentred ==
    layout.pc = "returned" =>
        \A k \in 1..Len(layout.nodes) :
            LET row == Row(layout.nodes[k].position.y)
            IN  /\ SumX(row) = 0
                /\ \E j \in row :
                      layout.nodes[j].position.x = 0 - layout.nodes[k].position.x
                /\ Cardinality(row) % 2 = 1
                     => \E j \in row : layout.nodes[j].position.x = 0

\* A row of two nodes and a row of one.
C15_Witness ==
    /\ layout.pc = "returned"
    /\ \E j, k \in 1..Len(layout.nodes) :
          /\ Cardinality(Row(layout.nodes[j].position.y)) = 2
          /\ layout.nodes[j].position.x = 105
          /\ Cardinality(Row(layout.nodes[k].position.y)) = 1
          /\ layout.nodes[k].position.x = 0

\* The ids a graph mentions: its root and the ends of its edges.
IdsOf(g) ==
    {g.root_node_id} \cup {g.edges[k].source : k \in 1..Len(g.edges)}
                     \cup {g.edges[k].target : k \in 1..Len(g.edges)}

Nth(positions, n) ==
    CHOOSE k \in positions : Cardinality({j \in positions : j < k}) = n - 1

\* C18: clearDone removes the items in status done and nothing else: the
\* queue it leaves is the items of other statuses, each with all its fields,
\* in their order ([queued, done, error, done] becomes [queued, error]), and
\* clearDone applied to that queue leaves it as it is.
C18_ClearDoneExact ==
    [][clearDone
         => LET kept == {k \in 1..Len(queue) : queue[k].status # "done"}
            IN  /\ Len(queue') = Cardinality(kept)
                /\ \A n \in 1..Len(queue') : queue'[n] = queue[Nth(kept, n)]
                /\ ClearDone(queue') = queue']_vars

\* What clearDone leaves of [queued, done, error, done].
C18_Witness ==
    /\ nextFile = 5
    /\ Len(queue) = 2
    /\ queue[1] = ItemIn("queued", 1)
    /\ queue[2] = ItemIn("error", 3)

\* C19: removeItem(i) with an index of the queue removes the item at that
\* index: the items before it and the items after it stay, with every field
\* as it was, in their order; with an index outside the queue it leaves the
\* queue as it is.
C19_RemoveItemExact ==
    /\ [](\A i \in {0 - 1, Len(queue), Len(queue) + 1} : RemoveItem(queue, i) = queue)
    /\ [][\A i \in 0..(Len(queue) - 1) :
            removeItem(i)
              => /\ Len(queue') = Len(queue) - 1
                 /\ \A k \in 1..Len(queue') :
                       queue'[k] = IF k - 1 < i THEN queue[k] ELSE queue[k + 1]]_vars

\* What removeItem(1) leaves of a queue of four items.
C19_Witness ==
    /\ nextFile = 5
    /\ Len(queue) = 3
    /\ queue[1] = ItemIn("uploading", 1)
    /\ queue[2] = ItemIn("error", 3)
    /\ queue[3] = ItemIn("queued", 4)

\* C20: an item in status uploading, analyzing or done carries no error
\* message: the message of a failed attempt is cleared when runBatch takes
\* the item up again.
C20_ItemErrorCleared ==
    \A k \in 1..Len(queue) :
        queue[k].status \in {"uploading", "analyzing", "done"}
            => queue[k].error = NoText

\* C21: a run of the single-image pipeline clears the error of the session
\* before its first remote call: the error is null while a run is suspended
\* at its upload or its analysis and after a run both of whose calls
\* resolved, whatever the run before left; the step that ends a run by a
\* rejected call leaves the message of that rejection (its detail, or the
\* fallback for an absent or empty detail) as the error.
C21_RunClearsError ==
    /\ [](run.pc \in {"upload", "analyze"} => store.error = NoText)
    /\ [](run.outcome = "ok" => store.error = NoText)
    /\ [][\A detail \in Details :
            (RunUploadRejected(detail) \/ RunAnalyzeRejected(detail))
              => /\ run'.outcome \in {"uploadFailed", "analyzeFailed"}
                 /\ store'.error =
                      IF detail \in {NoDetail, ""}
                        THEN "Analysis failed. Is the backend running on port 8000?"
                        ELSE detail]_vars

\* A run awaits its upload, the error cleared, after a run whose upload
\* resolved and whose analysis was rejected.
C21_Witness ==
    /\ run.pc = "upload"
    /\ store.uploadedImage # Null
    /\ store.analysisResult = Null
    /\ store.error = NoText

\* The fields of a queue item that hold the results of its calls.
ResultsOf(item) == <<item.imageId, item.verdict, item.score, item.error>>

\* C22: whatever removeItem and clearDone do while runBatch is in progress,
\* a step changes the imageId, the verdict, the score or the error only of
\* the item made for the File whose call has just been answered: the item
\* runBatch is processing.
C22_ResultsAttributed ==
    [][\A k \in 1..Len(queue) : \A j \in 1..Len(queue') :
          (queue'[j].file = queue[k].file /\ ResultsOf(queue'[j]) # ResultsOf(queue[k]))
            => /\ batch.pc \in {"upload", "analyze"}
               /\ queue[k].file = batch.queue[batch.i + 1].file]_vars

\* The results the session holds.
SessionResults ==
    {r \in {store.uploadedImage, store.analysisResult, store.provenanceGraph,
            store.socialSpread, store.report} : r # Null}

\* C23: every result the session holds (uploaded image, analysis result,
\* provenance graph, social spread, report) is a result for the image that
\* currentImageId names.
C23_SessionConsistent ==
    \A r \in SessionResults : r.image_id = store.currentImageId

\* C24: the counters of the batch page are consistent: completed plus
\* errored is at most the total, and deepfakes is at most completed, only
\* items in status done carrying a verdict.
C24_CountersConsistent ==
    /\ done + errors <= Len(queue)
    /\ deepfakes <= done
    /\ \A k \in 1..Len(queue) : queue[k].verdict # NoText => queue[k].status = "done"

\* The Files of the queue array the runBatch in progress closed over.
FilesOfRun == {batch.queue[k].file : k \in 1..Len(batch.queue)}

\* C25: an item that addFiles appends while runBatch is in progress is not
\* processed by that run: it stays as addFiles made it (status queued, no
\* result), and no call for its File is made.
C25_LateItemsUntouched ==
    batch.pc \in {"upload", "analyze"}
      => \A k \in 1..Len(queue) :
            queue[k].file \notin FilesOfRun
              => /\ queue[k] = NewItem(queue[k].file)
                 /\ BatchRequest("upload", queue[k].file) \notin net

\* C26: once runBatch has returned, running is false and no item of the
\* queue is left in status uploading or analyzing, whatever removeItem and
\* clearDone did during the run.
C26_RunLeavesNoneBusy ==
    batch.pc = "settled"
      => /\ ~running
         /\ \A k \in 1..Len(queue) : queue[k].status \notin {"uploading", "analyzing"}

\* The requests of the dependent stages in flight.
StageRequests == {r \in net : r.by = "stage"}

\* C27: a dependent stage (build graph, simulate spread, generate report)
\* invoked while currentImageId is null makes no remote call and sets the
\* error of its page; and a step in which a stage fails, by that validation
\* or by a rejected call, changes nothing of the session and nothing of the
\* other stages, and leaves the loading flag of its page false.
C27_StageFailureIsolated ==
    /\ [](\A r \in StageRequests : r.arg # NoId)
    /\ [][\A stage \in Stages :
            /\ (load(stage) /\ store.currentImageId = NoId)
                  => /\ net' = net
                     /\ stages'[stage].error \notin {NoText, "", NoDetail}
            /\ (stages'[stage] # stages[stage] /\ stages'[stage].error # NoText)
                  => /\ store' = store
                     /\ \A other \in Stages \ {stage} : stages'[other] = stages[other]
                     /\ ~stages'[stage].loading]_vars

\* The graph page shows the failure of its call and the report page its
\* validation message, the spread the social page loaded before still there.
C27_Witness ==
    /\ stages["graph"].error = "Failed to build provenance graph"
    /\ ~stages["graph"].loading
    /\ stages["report"].error = "Analyze an image and run provenance + social analysis first."
    /\ ~stages["report"].loading
    /\ stages["social"].result # Null
    /\ store.currentImageId = NoId
    /\ net = {}

\* C28: in the result, a node that no path of forward edges from the root
\* reaches is on row 0 (y = 0), the row of the root, and is counted and
\* indexed there with the root and the other such nodes: its x is that of
\* its place, in list order, among all the nodes of row 0, so it differs
\* from the x of the root and from the x of every other node of the row.
C28_UnreachableOnRootRow ==
    layout.pc = "returned" =>
        \A k \in 1..Len(layout.nodes) :
            layout.nodes[k].id \notin Reachable(layout.graph)
              => LET row == {j \in 1..Len(layout.nodes) :
                               \/ layout.nodes[j].id = layout.graph.root_node_id
                               \/ layout.nodes[j].id \notin Reachable(layout.graph)}
                     place == Cardinality({j \in row : j < k})
                 IN  /\ layout.nodes[k].position.y = 0
                     /\ 2 * layout.nodes[k].position.x
                          = (2 * place - (Cardinality(row) - 1)) * 210
                     /\ \A j \in row \ {k} :
                           /\ layout.nodes[j].position.y = 0
                           /\ layout.nodes[j].position.x # layout.nodes[k].position.x

\* The result for the nodes b, a, c and the edge a -> c: b, which the root a
\* does not reach, stands left of the root on row 0.
C28_Witness ==
    /\ layout.pc = "returned"
    /\ Len(layout.nodes) = 3
    /\ layout.graph.root_node_id = "a"
    /\ layout.nodes[1].id = "b"
    /\ "b" \notin Reachable(layout.graph)
    /\ layout.nodes[1].position = [x |-> 0 - 105, y |-> 0]
    /\ layout.nodes[2].id = "a"
    /\ layout.nodes[2].position = [x |-> 105, y |-> 0]
    /\ layout.nodes[3].position = [x |-> 0, y |-> 165]

\* The level of the k-th node of the result: its shortest forward distance
\* from the root, 0 when the root does not reach it.
LevelOf(k) ==
    IF layout.nodes[k].id \in Reachable(layout.graph)
      THEN Distance(layout.graph, layout.nodes[k].id)
      ELSE 0

\* C29: the i-th (from 0, in the order of the list of nodes) of the k nodes
\* of level L is at x = (i - (k - 1) / 2) * 210 and y = L * 165, so that
\* neighbours on a level are exactly 210 apart.
C29_GridPositions ==
    layout.pc = "returned" =>
        \A n \in 1..Len(layout.nodes) :
            LET level == {j \in 1..Len(layout.nodes) : LevelOf(j) = LevelOf(n)}
                i == Cardinality({j \in level : j < n})
                k == Cardinality(level)
            IN  /\ 2 * layout.nodes[n].position.x = (2 * i - (k - 1)) * 210
                /\ layout.nodes[n].position.y = LevelOf(n) * 165
                /\ \A j \in level :
                      Cardinality({m \in level : m < j}) = i + 1
                        => layout.nodes[j].position.x
                             = layout.nodes[n].position.x + 210

\* The result for the nodes c, b, a and the edges a -> b, a -> c: c and b
\* share level 1, in the order of the list, 210 apart.
C29_Witness ==
    /\ layout.pc = "returned"
    /\ Len(layout.nodes) = 3
    /\ layout.nodes[1].id = "c"
    /\ layout.nodes[1].position = [x |-> 0 - 105, y |-> 165]
    /\ layout.nodes[2].id = "b"
    /\ layout.nodes[2].position = [x |-> 105, y |-> 165]
    /\ layout.nodes[3].id = "a"
    /\ layout.nodes[3].position = [x |-> 0, y |-> 0]

\* C30: whenever a user is authenticated (setAuth has stored a token and no
\* logout has followed), saveToBackend sends the preferences as they are now
\* with the bearer token of that user; it skips the request only when no
\* user is authenticated.
C30_SaveSendsWhenAuthenticated ==
    [][saveToBackend
         => IF auth.isAuthenticated
              THEN /\ lastSave' = "sent"
                   /\ \E request \in puts' :
                         /\ request.preferences = settings
                         /\ request.Authorization = <<"Bearer", auth.token>>
              ELSE /\ lastSave' = "skipped"
                   /\ puts' = puts]_vars

====
